---- MODULE Spec2Model ----
(***************************************************************************)
(* Mail retrieval pipeline of resume-parser (apps/mail-server).            *)
(*                                                                         *)
(* Two builds of ImapClient.getMailList live in the repository:            *)
(*   "delay" : src/apps/mail-server/src/utils/ImapClient.ts, which         *)
(*             resolves 100 ms after the fetch 'end' event;                *)
(*   "gate"  : src/unnamed/part_000, which resolves on                     *)
(*             Promise.all(messagePromises).                               *)
(* The transport (node-imap) and the MIME parser (mailparser) are          *)
(* external: their events are the environment's moves.                     *)
(***************************************************************************)
EXTENDS Integers, Sequences, FiniteSets, TLC

\* ------------------------------------------------------------- bounds
\* Largest number of messages the searched folder holds.
MaxMsgs == 3
\* Largest result-count limit a caller passes.
MaxLimit == 2
\* Years the "current date" of a criteria build is drawn from.
FirstYear == 2023
LastYear == 2024
\* Unique id of the folder's first message minus one (uids and sequence
\* numbers are different numbers).
UidBase == 10

\* ------------------------------------------------------------- dates
\* A Date value at day granularity: [year, month (0-based, as JS), date].

IsLeap(y) == (y % 4 = 0 /\ y % 100 # 0) \/ y % 400 = 0

DaysInMonth(y, m) ==
    IF m = 1 THEN (IF IsLeap(y) THEN 29 ELSE 28)
    ELSE IF m \in {3, 5, 8, 10} THEN 30 ELSE 31

\* new Date(y, m, d) / setDate(d): month and day out of range roll over.
RECURSIVE MakeDate(_, _, _)
MakeDate(y, m, d) ==
    IF m < 0 THEN MakeDate(y - 1, m + 12, d)
    ELSE IF m > 11 THEN MakeDate(y + 1, m - 12, d)
    ELSE IF d < 1 THEN
        (IF m = 0 THEN MakeDate(y - 1, 11, d + DaysInMonth(y - 1, 11))
         ELSE MakeDate(y, m - 1, d + DaysInMonth(y, m - 1)))
    ELSE IF d > DaysInMonth(y, m) THEN MakeDate(y, m + 1, d - DaysInMonth(y, m))
    ELSE [year |-> y, month |-> m, date |-> d]

\* Leap years in 1..y.
LeapsUpTo(y) == (y \div 4) - (y \div 100) + (y \div 400)

RECURSIVE DaysBeforeMonth(_, _)
DaysBeforeMonth(y, m) ==
    IF m = 0 THEN 0 ELSE DaysBeforeMonth(y, m - 1) + DaysInMonth(y, m - 1)

\* Days from 1 Jan 2000 to the date.
DayNumber(dt) ==
    365 * (dt.year - 2000) + (LeapsUpTo(dt.year - 1) - LeapsUpTo(1999))
        + DaysBeforeMonth(dt.year, dt.month) + (dt.date - 1)

\* Date.prototype.getDay: 0 = Sunday; 1 Jan 2000 was a Saturday.
GetDay(dt) == (DayNumber(dt) + 6) % 7

\* Date.prototype.setDate(n) on dt.
SetDate(dt, n) == MakeDate(dt.year, dt.month, n)

\* ----------------------------------------------------- search criteria
months == <<"Jan", "Feb", "Mar", "Apr", "May", "Jun",
            "Jul", "Aug", "Sep", "Oct", "Nov", "Dec">>

\* Number.prototype.toString: the decimal digits of n >= 0.
RECURSIVE Digits(_)
Digits(n) == IF n < 10 THEN <<n>> ELSE Digits(n \div 10) \o <<n % 10>>

\* String.prototype.padStart(len, ch).
RECURSIVE padStart(_, _, _)
padStart(s, len, ch) ==
    IF Len(s) >= len THEN s ELSE padStart(<<ch>> \o s, len, ch)

\* date.getDate().toString().padStart(2, '0') as its two digit characters.
PadStart2(n) == padStart(Digits(n), 2, 0)

\* formatDate without the padStart of the day.
formatDate_NoPad(dt) ==
    Digits(dt.date) \o <<"-", months[dt.month + 1], "-", dt.year>>

\* formatDate: `${dd}-${months[date.getMonth()]}-${date.getFullYear()}`
\* as the sequence of its pieces.
formatDate(dt) ==
    PadStart2(dt.date) \o <<"-", months[dt.month + 1], "-", dt.year>>

\* The time-range tags FilterParams declares, "" standing for an absent tag.
HandledRanges == {"today", "yesterday", "thisWeek", "last7days",
                  "thisMonth", "lastMonth"}
DeclaredRanges == HandledRanges \cup {"last30days", "custom"}
TimeRanges == DeclaredRanges \cup {""}

\* The switch of buildSearchCriteria with last7days one day off (now - 7).
sinceDate_Last7Off(timeRange, nowDate) ==
    CASE timeRange = "today" -> nowDate
      [] timeRange = "yesterday" -> SetDate(nowDate, nowDate.date - 1)
      [] timeRange = "thisWeek" -> SetDate(nowDate, nowDate.date - GetDay(nowDate))
      [] timeRange = "last7days" -> SetDate(nowDate, nowDate.date - 7)
      [] timeRange = "thisMonth" -> MakeDate(nowDate.year, nowDate.month, 1)
      [] timeRange = "lastMonth" -> MakeDate(nowDate.year, nowDate.month - 1, 1)

\* The switch of buildSearchCriteria: the since date of a handled tag.
sinceDate(timeRange, nowDate) ==
    CASE timeRange = "today" -> nowDate
      [] timeRange = "yesterday" -> SetDate(nowDate, nowDate.date - 1)
      [] timeRange = "thisWeek" -> SetDate(nowDate, nowDate.date - GetDay(nowDate))
      [] timeRange = "last7days" -> SetDate(nowDate, nowDate.date - 6)
      [] timeRange = "thisMonth" -> MakeDate(nowDate.year, nowDate.month, 1)
      [] timeRange = "lastMonth" -> MakeDate(nowDate.year, nowDate.month - 1, 1)

\* Whether buildSearchCriteria throws (the switch's default branch).
buildThrows(timeRange) == timeRange # "" /\ timeRange \notin HandledRanges

\* buildSearchCriteria without its early return on an absent tag: the
\* absent tag falls into the date branch as "today".
buildSearchCriteria_NoEarlyReturn(timeRange, nowDate) ==
    << <<"ALL">>,
       <<"SINCE", formatDate(IF timeRange = "" THEN nowDate
                             ELSE sinceDate(timeRange, nowDate))>> >>

\* buildSearchCriteria when it returns: a sequence of terms, each a tuple
\* whose first element is the keyword.
buildSearchCriteria(timeRange, nowDate) ==
    IF timeRange = "" THEN << <<"ALL">> >>
    ELSE << <<"ALL">>, <<"SINCE", formatDate(sinceDate(timeRange, nowDate))>> >>

\* Number of terms of a criteria sequence carrying keyword kw.
CountTerms(criteria, kw) ==
    Cardinality({k \in 1..Len(criteria) : criteria[k][1] = kw})

\* ------------------------------------------------------------- state
VARIABLES
    variant,        \* which build of getMailList runs: "delay" or "gate"
    phase,          \* where the call's callback chain stands
    callState,      \* the promise getMailList returned: pending/resolved/rejected
    filterParams,   \* [timeRange, hasLimit, limit] of the call
    now,            \* the value of new Date() in buildSearchCriteria
    built,          \* buildSearchCriteria: "none", "returned" or "threw"
    searchCriteria, \* what buildSearchCriteria returned
    issued,         \* transport operations issued so far, in order
    results,        \* the ids the search matched
    fetchUids,      \* the ids handed to imap.fetch
    msgs,           \* per fetched message: the events seen so far
    mail,           \* per fetched message: the Partial<Mail> object
    mails,          \* the mails array, as references into mail
    timer,          \* the setTimeout of the fetch 'end' handler
    returned,       \* the records the promise was resolved with, as they were then
    logged,         \* sequence numbers console.error reported as unparsable
    err,            \* the operation whose callback or event carried an error
    sanitizeCall,   \* one call of sanitizeFilename: [name, done, result]
    findCall,       \* one call of findAttachments: [struct, done, attachments]
    decodeCall,     \* one call of decodeRFC2047: [segments, encoded, done, result]
    dlState,        \* the downloadAttachments promise: none, running, resolved, rejected
    dlMails,        \* the argument mails
    classifyByDate, \* whether the caller wants one folder per date
    dirExists,      \* fs.existsSync(outputDir)
    writes,         \* per attachment: how its write ended and the path written
    files,          \* the files below outputDir: path and content
    clock,          \* Date.now()
    dlLogged        \* the attachments console.error has reported

\* The state of one getMailList call.
callVars == <<variant, phase, callState, filterParams, now, built, searchCriteria,
              issued, results, fetchUids, msgs, mail, mails, timer, returned,
              logged, err>>

\* The state of the helpers run on their own.
\* The state of one downloadAttachments call.
dlVars == <<dlState, dlMails, classifyByDate, dirExists, writes, files, clock,
            dlLogged>>

auxVars == <<sanitizeCall, findCall, decodeCall, dlVars>>

vars == <<callVars, auxVars>>

NoCall == [done |-> FALSE]

\* No helper call is under way.
\* downloadAttachments has not been called.
DlIdle ==
    /\ dlState = "none"
    /\ dlMails = <<>>
    /\ classifyByDate = FALSE
    /\ dirExists = FALSE
    /\ writes = <<>>
    /\ files = {}
    /\ clock = 0
    /\ dlLogged = {}

AuxIdle ==
    /\ sanitizeCall = NoCall
    /\ findCall = NoCall
    /\ decodeCall = NoCall
    /\ DlIdle

Variants == {"delay", "gate"}

NoDate == [year |-> 0, month |-> 0, date |-> 0]
NoFilter == [timeRange |-> "", hasLimit |-> FALSE, limit |-> 0]

\* The unique id of the message at sequence number s, and back.
UidOf(s) == UidBase + s
SeqNoOf(uid) == uid - UidBase

Min(a, b) == IF a < b THEN a ELSE b

\* Array.prototype.slice(start, end) for 0 <= start, 0 <= end.
slice(arr, start, end) == SubSeq(arr, start + 1, Min(end, Len(arr)))

\* results.slice(0, limit): an undefined limit keeps the whole array.
selectFetchUids(res, fp) ==
    IF fp.hasLimit THEN slice(res, 0, fp.limit) ELSE res

\* The mails array with each reference replaced by the object it points to.
Contents(ms, ml) == [k \in 1..Len(ms) |-> ml[ms[k]]]

\* messagePromise of message i is settled once its parse has ended.
Settled(m) == m.body \in {"ok", "fail"}
AllSettled(ms) == \A i \in 1..Len(ms) : Settled(ms[i])

\* resolve(value) and reject(err) of the call's promise: only a pending
\* promise settles.
ResolvedState(cs) == IF cs = "pending" THEN "resolved" ELSE cs
RejectedState(cs) == IF cs = "pending" THEN "rejected" ELSE cs

Init ==
    /\ variant \in Variants
    /\ phase = "idle"
    /\ callState = "none"
    /\ filterParams = NoFilter
    /\ now = NoDate
    /\ built = "none"
    /\ searchCriteria = <<>>
    /\ issued = <<>>
    /\ results = <<>>
    /\ fetchUids = <<>>
    /\ msgs = <<>>
    /\ mail = <<>>
    /\ mails = <<>>
    /\ timer = "none"
    /\ returned = <<>>
    /\ logged = {}
    /\ err = "none"
    /\ AuxIdle

\* The date the call specification takes new Date() to be (the criteria
\* builder is run over every date on its own, below).
CallNows == {MakeDate(LastYear, 2, 3)}

\* getMailList(folderName, filterParams): the promise executor issues openBox.
GetMailList(tr, hasLimit, limit) ==
    /\ phase = "idle"
    /\ filterParams' = [timeRange |-> tr, hasLimit |-> hasLimit,
                        limit |-> IF hasLimit THEN limit ELSE 0]
    /\ callState' = "pending"
    /\ issued' = Append(issued, "openBox")
    /\ phase' = "opening"
    /\ UNCHANGED <<variant, now, built, searchCriteria, results, fetchUids,
                   msgs, mail, mails, timer, returned, logged, err,
                   auxVars>>

\* The openBox callback with err rejecting without returning: the rest of
\* the callback runs and the search is issued.
OpenBoxErr_NoReturn ==
    /\ phase = "opening"
    /\ err' = "openBox"
    /\ callState' = RejectedState(callState)
    /\ built' = "returned"
    /\ searchCriteria' = << <<"ALL">> >>
    /\ issued' = Append(issued, "search")
    /\ phase' = "searching"
    /\ UNCHANGED <<variant, filterParams, now, results, fetchUids, msgs, mail,
                   mails, timer, returned, logged,
                   auxVars>>

\* openBox callback with err: return reject(err).
OpenBoxErr ==
    /\ phase = "opening"
    /\ err' = "openBox"
    /\ callState' = RejectedState(callState)
    /\ phase' = "closed"
    /\ UNCHANGED <<variant, filterParams, now, built, searchCriteria, issued,
                   results, fetchUids, msgs, mail, mails, timer, returned, logged,
                   auxVars>>

\* openBox callback without err: build the criteria and issue the search.
\* A throw of buildSearchCriteria leaves the callback: nothing catches it
\* and nothing settles the promise.
OpenBoxOk(nowDate) ==
    /\ phase = "opening"
    /\ now' = nowDate
    /\ IF buildThrows(filterParams.timeRange)
       THEN /\ built' = "threw"
            /\ phase' = "closed"
            /\ UNCHANGED <<searchCriteria, issued>>
       ELSE /\ built' = "returned"
            /\ searchCriteria' = buildSearchCriteria(filterParams.timeRange, nowDate)
            /\ issued' = Append(issued, "search")
            /\ phase' = "searching"
    /\ UNCHANGED <<variant, callState, filterParams, results, fetchUids,
                   msgs, mail, mails, timer, returned, logged, err,
                   auxVars>>

\* The search callback with err rejecting without returning: the rest of
\* the callback runs and the fetch is issued.
SearchErr_NoReturn ==
    /\ phase = "searching"
    /\ err' = "search"
    /\ callState' = RejectedState(callState)
    /\ issued' = Append(issued, "fetch")
    /\ phase' = "fetching"
    /\ UNCHANGED <<variant, filterParams, now, built, searchCriteria, results,
                   fetchUids, msgs, mail, mails, timer, returned, logged,
                   auxVars>>

\* search callback with err: return reject(err).
SearchErr ==
    /\ phase = "searching"
    /\ err' = "search"
    /\ callState' = RejectedState(callState)
    /\ phase' = "closed"
    /\ UNCHANGED <<variant, filterParams, now, built, searchCriteria, issued,
                   results, fetchUids, msgs, mail, mails, timer, returned, logged,
                   auxVars>>

\* The search callback without its test for an empty result: the fetch is
\* issued for whatever was matched.
SearchOk_NoEmptyCheck(m) ==
    /\ phase = "searching"
    /\ results' = [s \in 1..m |-> UidOf(s)]
    /\ fetchUids' = selectFetchUids(results', filterParams)
    /\ issued' = Append(issued, "fetch")
    /\ msgs' = [i \in 1..Len(fetchUids') |->
                   [announced |-> FALSE, body |-> "none", attrs |-> FALSE]]
    /\ mail' = [i \in 1..Len(fetchUids') |->
                   [seqNo |-> 0, uid |-> 0, parsed |-> FALSE]]
    /\ phase' = "fetching"
    /\ UNCHANGED <<variant, callState, filterParams, now, built, searchCriteria,
                   mails, timer, returned, logged, err,
                   auxVars>>

\* search callback with the matched ids (the folder's first m messages):
\* resolve([]) on none, else select the ids and issue the fetch.
SearchOk(m) ==
    /\ phase = "searching"
    /\ results' = [s \in 1..m |-> UidOf(s)]
    /\ IF m = 0
       THEN /\ callState' = ResolvedState(callState)
            /\ phase' = "closed"
            /\ UNCHANGED <<fetchUids, issued, msgs, mail>>
       ELSE /\ fetchUids' = selectFetchUids(results', filterParams)
            /\ issued' = Append(issued, "fetch")
            /\ msgs' = [i \in 1..Len(fetchUids') |->
                           [announced |-> FALSE, body |-> "none", attrs |-> FALSE]]
            /\ mail' = [i \in 1..Len(fetchUids') |->
                           [seqNo |-> 0, uid |-> 0, parsed |-> FALSE]]
            /\ phase' = "fetching"
            /\ UNCHANGED callState
    /\ UNCHANGED <<variant, filterParams, now, built, searchCriteria, mails,
                   timer, returned, logged, err,
                   auxVars>>

\* ------------------------------------------------------- fetch events
\* Whether the Promise.all of the "gate" build's 'end' handler has fired:
\* the fetch has ended and every messagePromise is settled.
GateOpen(ph, ms) == variant = "gate" /\ ph = "fetchEnded" /\ AllSettled(ms)

\* f.on('message'): the transport announces the next message and the
\* handler creates its mail object.
Message(i) ==
    /\ phase = "fetching"
    /\ i \in 1..Len(msgs)
    /\ ~msgs[i].announced
    /\ \A j \in 1..(i - 1) : msgs[j].announced
    /\ msgs' = [msgs EXCEPT ![i].announced = TRUE]
    /\ mail' = [mail EXCEPT ![i].seqNo = SeqNoOf(fetchUids[i])]
    /\ UNCHANGED <<variant, phase, callState, filterParams, now, built,
                   searchCriteria, issued, results, fetchUids, mails, timer,
                   returned, logged, err,
                   auxVars>>

\* msg.on('body'): the body stream opens and its listeners are registered.
Body(i) ==
    /\ phase = "fetching"
    /\ i \in 1..Len(msgs)
    /\ msgs[i].announced
    /\ msgs[i].body = "none"
    /\ msgs' = [msgs EXCEPT ![i].body = "streaming"]
    /\ UNCHANGED <<variant, phase, callState, filterParams, now, built,
                   searchCriteria, issued, results, fetchUids, mail, mails,
                   timer, returned, logged, err,
                   auxVars>>

\* stream.once('end') up to its await: simpleParser(buffer) is started.
StreamEnd(i) ==
    /\ phase \in {"fetching", "fetchEnded"}
    /\ i \in 1..Len(msgs)
    /\ msgs[i].body = "streaming"
    /\ msgs' = [msgs EXCEPT ![i].body = "parsing"]
    /\ UNCHANGED <<variant, phase, callState, filterParams, now, built,
                   searchCriteria, issued, results, fetchUids, mail, mails,
                   timer, returned, logged, err,
                   auxVars>>

\* The uid the parse continuation stores: fetchUids[mails.length] when the
\* parsed message has a messageId, else the sequence number.
parsedUid(i, hasMessageId) ==
    IF hasMessageId THEN fetchUids[Len(mails) + 1] ELSE mail[i].seqNo

\* stream.once('end') after its await, simpleParser having returned: the
\* fields are stored, the mail is pushed (and, in "gate", its
\* messagePromise resolved).
ParseOk(i, hasMessageId) ==
    /\ i \in 1..Len(msgs)
    /\ msgs[i].body = "parsing"
    /\ msgs' = [msgs EXCEPT ![i].body = "ok"]
    /\ mail' = [mail EXCEPT ![i].uid = parsedUid(i, hasMessageId),
                            ![i].parsed = TRUE]
    /\ mails' = Append(mails, i)
    /\ IF GateOpen(phase, msgs')
       THEN /\ callState' = ResolvedState(callState)
            /\ returned' = IF callState = "pending"
                           THEN Contents(mails', mail') ELSE returned
       ELSE UNCHANGED <<callState, returned>>
    /\ UNCHANGED <<variant, phase, filterParams, now, built, searchCriteria,
                   issued, results, fetchUids, timer, logged, err,
                   auxVars>>

\* stream.once('end') after its await, simpleParser having thrown: the
\* catch logs the sequence number (and, in "gate", resolves the
\* messagePromise).
ParseFail(i) ==
    /\ i \in 1..Len(msgs)
    /\ msgs[i].body = "parsing"
    /\ msgs' = [msgs EXCEPT ![i].body = "fail"]
    /\ logged' = logged \cup {mail[i].seqNo}
    /\ IF GateOpen(phase, msgs')
       THEN /\ callState' = ResolvedState(callState)
            /\ returned' = IF callState = "pending"
                           THEN Contents(mails, mail) ELSE returned
       ELSE UNCHANGED <<callState, returned>>
    /\ UNCHANGED <<variant, phase, filterParams, now, built, searchCriteria,
                   issued, results, fetchUids, mail, mails, timer, err,
                   auxVars>>

\* msg.on('attributes'): mail.uid = attrs.uid.
Attributes(i) ==
    /\ phase = "fetching"
    /\ i \in 1..Len(msgs)
    /\ msgs[i].announced
    /\ ~msgs[i].attrs
    /\ msgs' = [msgs EXCEPT ![i].attrs = TRUE]
    /\ mail' = [mail EXCEPT ![i].uid = fetchUids[i]]
    /\ UNCHANGED <<variant, phase, callState, filterParams, now, built,
                   searchCriteria, issued, results, fetchUids, mails, timer,
                   returned, logged, err,
                   auxVars>>

\* f.once('error', reject).
FetchError ==
    /\ phase = "fetching"
    /\ phase' = "fetchError"
    /\ err' = "fetch"
    /\ callState' = RejectedState(callState)
    /\ UNCHANGED <<variant, filterParams, now, built, searchCriteria, issued,
                   results, fetchUids, msgs, mail, mails, timer, returned,
                   logged,
                   auxVars>>

\* f.once('end'), after every message was announced: "delay" arms the
\* 100 ms timer, "gate" hands messagePromises to Promise.all.
FetchEnd ==
    /\ phase = "fetching"
    /\ \A i \in 1..Len(msgs) : msgs[i].announced
    /\ phase' = "fetchEnded"
    /\ IF variant = "delay"
       THEN /\ timer' = "armed"
            /\ UNCHANGED <<callState, returned>>
       ELSE /\ UNCHANGED timer
            /\ IF GateOpen(phase', msgs)
               THEN /\ callState' = ResolvedState(callState)
                    /\ returned' = Contents(mails, mail)
               ELSE UNCHANGED <<callState, returned>>
    /\ UNCHANGED <<variant, filterParams, now, built, searchCriteria, issued,
                   results, fetchUids, msgs, mail, mails, logged, err,
                   auxVars>>

\* The setTimeout callback of "delay": resolve(mails).
TimerFires ==
    /\ timer = "armed"
    /\ timer' = "fired"
    /\ callState' = ResolvedState(callState)
    /\ returned' = IF callState = "pending" THEN Contents(mails, mail) ELSE returned
    /\ UNCHANGED <<variant, phase, filterParams, now, built, searchCriteria,
                   issued, results, fetchUids, msgs, mail, mails, logged, err,
                   auxVars>>

Next ==
    \/ \E tr \in TimeRanges : GetMailList(tr, FALSE, 0)
    \/ \E tr \in TimeRanges, n \in 1..MaxLimit : GetMailList(tr, TRUE, n)
    \/ OpenBoxErr
    \/ \E d \in CallNows : OpenBoxOk(d)
    \/ SearchErr
    \/ \E m \in 0..MaxMsgs : SearchOk(m)
    \/ \E i \in 1..MaxMsgs : Message(i)
    \/ \E i \in 1..MaxMsgs : Body(i)
    \/ \E i \in 1..MaxMsgs : StreamEnd(i)
    \/ \E i \in 1..MaxMsgs, h \in BOOLEAN : ParseOk(i, h)
    \/ \E i \in 1..MaxMsgs : ParseFail(i)
    \/ \E i \in 1..MaxMsgs : Attributes(i)
    \/ FetchError
    \/ FetchEnd
    \/ TimerFires

Spec == Init /\ [][Next]_vars

\* ------------------------------------------ criteria builder on its own
\* Every day of the years FirstYear..LastYear.
AllDates ==
    {dt \in [year : FirstYear..LastYear, month : 0..11, date : 1..31] :
        dt.date <= DaysInMonth(dt.year, dt.month)}

InitCriteria ==
    /\ variant \in Variants
    /\ phase = "idle"
    /\ callState = "none"
    /\ filterParams \in {[timeRange |-> tr, hasLimit |-> FALSE, limit |-> 0] :
                            tr \in TimeRanges}
    /\ now \in AllDates
    /\ built = "none"
    /\ searchCriteria = <<>>
    /\ issued = <<>>
    /\ results = <<>>
    /\ fetchUids = <<>>
    /\ msgs = <<>>
    /\ mail = <<>>
    /\ mails = <<>>
    /\ timer = "none"
    /\ returned = <<>>
    /\ logged = {}
    /\ err = "none"
    /\ AuxIdle

\* One run of buildSearchCriteria(filterParams) at the date now.
BuildCriteria ==
    /\ built = "none"
    /\ IF buildThrows(filterParams.timeRange)
       THEN /\ built' = "threw"
            /\ UNCHANGED searchCriteria
       ELSE /\ built' = "returned"
            /\ searchCriteria' = buildSearchCriteria(filterParams.timeRange, now)
    /\ UNCHANGED <<variant, phase, callState, filterParams, now, issued, results,
                   fetchUids, msgs, mail, mails, timer, returned, logged, err,
                   auxVars>>

NextCriteria == BuildCriteria

SpecCriteria == InitCriteria /\ [][NextCriteria]_vars

\* ------------------------------------------------------------- claims
\* The date a formatted DD-MMM-YYYY term denotes.
TermDate(fmt) ==
    [year |-> fmt[6],
     month |-> (CHOOSE k \in 1..12 : months[k] = fmt[4]) - 1,
     date |-> 10 * fmt[1] + fmt[2]]

\* A message is in flight while simpleParser works on its buffered body.
InFlight(m) == m.body = "parsing"

\* C1: at the moment the call resolves no fetched message is still being
\* parsed: each one handed to the parser has had its record appended or has
\* failed to parse.
C1_ResolvesAfterAllSettled ==
    [][(callState = "pending" /\ callState' = "resolved")
        => \A i \in 1..Len(msgs') : ~InFlight(msgs'[i])]_vars

\* C2: every record in the mails array has had both the attributes event
\* (its unique id) and its parsed body applied.
C2_ResultRecordsComplete ==
    \A k \in 1..Len(mails) : msgs[mails[k]].attrs /\ mail[mails[k]].parsed

\* C3: the ids fetched are the last min(limit, M) of the M matched ids, and
\* all M without a limit.
C3_FetchesSuffix ==
    "fetch" \in {issued[k] : k \in 1..Len(issued)} =>
        fetchUids =
            IF filterParams.hasLimit
            THEN SubSeq(results,
                        Len(results) - Min(filterParams.limit, Len(results)) + 1,
                        Len(results))
            ELSE results

\* The fetched messages whose parse succeeded, and those whose parse failed.
ParsedOk == {i \in 1..Len(msgs) : msgs[i].body = "ok"}
ParsedFail == {i \in 1..Len(msgs) : msgs[i].body = "fail"}

\* C4: a parse failure never rejects the call, its message is logged and
\* left out, and when a fetch of k messages with exactly one parse failure
\* has ended and resolved, the result holds the k-1 other messages.
C4_ParseFailureIsolated ==
    /\ callState = "rejected" => err # "none"
    /\ \A i \in ParsedFail :
          /\ mail[i].seqNo \in logged
          /\ \A k \in 1..Len(mails) : mails[k] # i
    /\ (callState = "resolved" /\ phase = "fetchEnded" /\ AllSettled(msgs)
            /\ Cardinality(ParsedFail) = 1)
        => /\ Len(returned) = Len(msgs) - 1
           /\ \A i \in ParsedOk :
                 \E k \in 1..Len(returned) : returned[k].seqNo = mail[i].seqNo

\* C5: a message whose attributes never arrive (the fetch ended without
\* them) has no record in the result the call resolved with.
C5_ResultOnlyIdentified ==
    (callState = "resolved" /\ phase = "fetchEnded") =>
        \A k \in 1..Len(returned) : msgs[mails[k]].attrs

\* C6: the records the call resolved with are in ascending order of
\* sequence number.
C6_ResultAscending ==
    callState = "resolved" =>
        \A k, l \in 1..Len(returned) :
            k < l => returned[k].seqNo < returned[l].seqNo

\* C7: for each handled time-range tag the criteria hold exactly one SINCE
\* and exactly one BEFORE term, the BEFORE date later than the SINCE date.
C7_SinceAndBefore ==
    (built = "returned" /\ filterParams.timeRange \in HandledRanges) =>
        /\ CountTerms(searchCriteria, "SINCE") = 1
        /\ CountTerms(searchCriteria, "BEFORE") = 1
        /\ \A a, b \in 1..Len(searchCriteria) :
              (searchCriteria[a][1] = "SINCE" /\ searchCriteria[b][1] = "BEFORE")
                  => DayNumber(TermDate(searchCriteria[b][2]))
                        > DayNumber(TermDate(searchCriteria[a][2]))

\* C8: with no time range the criteria are exactly [ALL], with no SINCE and
\* no BEFORE term.
C8_NoRangeOnlyAll ==
    (built = "returned" /\ filterParams.timeRange = "") =>
        /\ searchCriteria = << <<"ALL">> >>
        /\ CountTerms(searchCriteria, "SINCE") = 0
        /\ CountTerms(searchCriteria, "BEFORE") = 0

C8_Witness ==
    /\ built = "returned"
    /\ filterParams.timeRange = ""
    /\ now \in AllDates
    /\ searchCriteria = << <<"ALL">> >>

\* C9: an unrecognized time-range tag rejects the call's promise, with no
\* search or fetch issued and no result.
C9_InvalidTagRejects ==
    built = "threw" =>
        /\ callState = "rejected"
        /\ issued = <<"openBox">>
        /\ returned = <<>>

\* C10: after an open-folder failure neither search nor fetch is issued,
\* after a search failure no fetch is issued, and in both cases the call is
\* rejected with no result.
C10_TransportFailureAborts ==
    /\ err = "openBox" =>
          issued = <<"openBox">> /\ callState = "rejected" /\ returned = <<>>
    /\ err = "search" =>
          /\ issued = <<"openBox", "search">>
          /\ callState = "rejected"
          /\ returned = <<>>
          /\ fetchUids = <<>>

C10_Witness ==
    /\ err = "search"
    /\ issued = <<"openBox", "search">>
    /\ callState = "rejected"

\* C11: when the search matches nothing the call is resolved with an empty
\* sequence by the search callback itself, and no fetch is issued.
C11_EmptySearchResolvesEmpty ==
    (phase \notin {"idle", "opening", "searching"} /\ built = "returned"
        /\ err # "search" /\ results = <<>>)
    => /\ callState = "resolved"
       /\ returned = <<>>
       /\ issued = <<"openBox", "search">>
       /\ fetchUids = <<>>

C11_Witness ==
    /\ phase = "closed"
    /\ built = "returned"
    /\ err = "none"
    /\ results = <<>>
    /\ callState = "resolved"
    /\ issued = <<"openBox", "search">>

\* C18: every record in the mails array whose message's attributes event
\* was handled carries the unique id of that event, whichever of the
\* attributes event and the parse completion came first.
C18_UidFromAttributes ==
    \A k \in 1..Len(mails) :
        msgs[mails[k]].attrs => mail[mails[k]].uid = fetchUids[mails[k]]

\* C19: the transport operations are issued in the order openBox, search,
\* fetch, each at most once and only when the one before it has called back
\* without an error (the search with a non-empty result), so that at most
\* one is outstanding; nothing is issued once the call has failed.
C19_OperationsInOrder ==
    /\ \E n \in 0..3 : issued = SubSeq(<<"openBox", "search", "fetch">>, 1, n)
    /\ Len(issued) >= 2 =>
          /\ phase \notin {"idle", "opening"}
          /\ err # "openBox"
          /\ built = "returned"
    /\ Len(issued) = 3 =>
          /\ phase \notin {"idle", "opening", "searching"}
          /\ err # "search"
          /\ Len(results) > 0
    /\ (err \in {"openBox", "search"} \/ built = "threw") => phase = "closed"

C19_Witness ==
    /\ issued = <<"openBox", "search", "fetch">>
    /\ phase = "fetchEnded"
    /\ callState = "resolved"
    /\ Len(results) = MaxMsgs

\* The date terms of a criteria sequence (every term but ALL).
DateTerms(criteria) ==
    {criteria[k] : k \in {j \in 1..Len(criteria) : criteria[j][1] # "ALL"}}

EnglishMonths == {"Jan", "Feb", "Mar", "Apr", "May", "Jun",
                  "Jul", "Aug", "Sep", "Oct", "Nov", "Dec"}

\* C17: every date term reads DD-MMM-YYYY: two digits of the day (zero
\* padded), a hyphen, the English three-letter month abbreviation, a hyphen,
\* the four digits of the year; and it is the since date that it spells.
C17_DateTermFormat ==
    built = "returned" =>
        \A t \in DateTerms(searchCriteria) :
            LET fmt == t[2]
                d == sinceDate(filterParams.timeRange, now) IN
            /\ Len(fmt) = 6
            /\ fmt[3] = "-"
            /\ fmt[5] = "-"
            /\ fmt[1] \in 0..9
            /\ fmt[2] \in 0..9
            /\ 10 * fmt[1] + fmt[2] = d.date
            /\ fmt[4] \in EnglishMonths
            /\ fmt[4] = <<"Jan", "Feb", "Mar", "Apr", "May", "Jun", "Jul",
                          "Aug", "Sep", "Oct", "Nov", "Dec">>[d.month + 1]
            /\ Len(Digits(fmt[6])) = 4
            /\ fmt[6] = d.year

C17_Witness ==
    /\ built = "returned"
    /\ filterParams.timeRange = "today"
    /\ now = [year |-> LastYear, month |-> 2, date |-> 5]
    /\ searchCriteria[2] = <<"SINCE", <<0, 5, "-", "Mar", "-", LastYear>>>>

\* C20: the SINCE term of each handled tag denotes the documented lower
\* bound, counted in days from the current date.
C20_SinceIsLowerBound ==
    (built = "returned" /\ filterParams.timeRange \in HandledRanges) =>
        LET tr == filterParams.timeRange
            s == TermDate(searchCriteria[2][2]) IN
        /\ searchCriteria[2][1] = "SINCE"
        /\ s.month \in 0..11
        /\ s.date \in 1..DaysInMonth(s.year, s.month)
        /\ tr = "today" => DayNumber(s) = DayNumber(now)
        /\ tr = "yesterday" => DayNumber(s) = DayNumber(now) - 1
        /\ tr = "thisWeek" =>
              DayNumber(s) = DayNumber(now) - GetDay(now) /\ GetDay(s) = 0
        /\ tr = "last7days" => DayNumber(s) = DayNumber(now) - 6
        /\ tr = "thisMonth" =>
              s = [year |-> now.year, month |-> now.month, date |-> 1]
        /\ tr = "lastMonth" =>
              s = IF now.month = 0
                  THEN [year |-> now.year - 1, month |-> 11, date |-> 1]
                  ELSE [year |-> now.year, month |-> now.month - 1, date |-> 1]

C20_Witness ==
    /\ built = "returned"
    /\ filterParams.timeRange = "yesterday"
    /\ now = [year |-> LastYear, month |-> 0, date |-> 1]
    /\ TermDate(searchCriteria[2][2])
          = [year |-> LastYear - 1, month |-> 11, date |-> 31]

\* C22: once the call has resolved, the array it resolved with and the
\* records in it stay as they were at the resolution: no record is appended
\* and no uid of a returned record changes.
C22_ReturnedNeverMutated ==
    callState = "resolved" => Contents(mails, mail) = returned

\* ---------------------------------------------------------------------------
\* sanitizeFilename.  A name is a sequence of one-character strings.

\* substring(0, 100) keeps at most this many characters.
NameLimit == 100

\* The longest name enumerated character by character.
MaxNameLen == 3

\* The character class of the regular expression /[<>:;"\/\\|?*]+/g.
illegalChars == {"<", ">", ":", ";", "\"", "/", "\\", "|", "?", "*"}

\* name.replace(/[...]+/g, '_') over the characters lo..hi of name.  A match
\* starts at a character of the class that follows none of the class, takes
\* every character of the class after it, and is replaced by one underscore.
\* The range is halved to keep the evaluation shallow.
RECURSIVE replaceRuns(_, _, _)
replaceRuns(name, lo, hi) ==
    IF lo > hi THEN <<>>
    ELSE IF lo = hi
         THEN IF name[lo] \notin illegalChars THEN <<name[lo]>>
              ELSE IF lo > 1 /\ name[lo - 1] \in illegalChars THEN <<>>
              ELSE <<"_">>
         ELSE LET mid == (lo + hi) \div 2
              IN  replaceRuns(name, lo, mid) \o replaceRuns(name, mid + 1, hi)

\* String.substring(from, to) for 0 <= from <= to.
substring(s, from, to) == SubSeq(s, from + 1, Min(to, Len(s)))

\* A sanitizer whose expression lacks the +, so that every character of a
\* run is replaced on its own.
sanitizeFilename_EachChar(name) ==
    substring([k \in 1..Len(name) |->
                  IF name[k] \in illegalChars THEN "_" ELSE name[k]],
              0, NameLimit)

sanitizeFilename(name) == substring(replaceRuns(name, 1, Len(name)), 0, NameLimit)

\* The characters the enumerated names are made of.
NameChars == illegalChars \cup {"a", "_", "."}

ShortNames == UNION {[1..n -> NameChars] : n \in 0..MaxNameLen}

\* n times the character "a".
Filler(n) == [k \in 1..n |-> "a"]

\* Names around the length limit: one or two characters before or after a
\* filler.
LongNames ==
    LET ends == UNION {[1..m -> NameChars] : m \in 1..2}
        lens == (NameLimit - 3)..(NameLimit + 1)
    IN  {s \o Filler(n) : s \in ends, n \in lens}
            \cup {Filler(n) \o s : s \in ends, n \in lens}

ExampleName == <<"a", "/", "b", ":", "c", "*", "d", ".", "t", "x", "t">>

SanitizeInputs == ShortNames \cup LongNames \cup {ExampleName}

InitSanitize ==
    /\ variant \in Variants
    /\ phase = "idle"
    /\ callState = "none"
    /\ filterParams = NoFilter
    /\ now = NoDate
    /\ built = "none"
    /\ searchCriteria = <<>>
    /\ issued = <<>>
    /\ results = <<>>
    /\ fetchUids = <<>>
    /\ msgs = <<>>
    /\ mail = <<>>
    /\ mails = <<>>
    /\ timer = "none"
    /\ returned = <<>>
    /\ logged = {}
    /\ err = "none"
    /\ sanitizeCall \in {[name |-> n, done |-> FALSE] : n \in SanitizeInputs}
    /\ findCall = NoCall
    /\ decodeCall = NoCall
    /\ DlIdle

\* One run of sanitizeFilename(name).
SanitizeFilename ==
    /\ ~sanitizeCall.done
    /\ sanitizeCall' = [name |-> sanitizeCall.name, done |-> TRUE,
                        result |-> sanitizeFilename(sanitizeCall.name)]
    /\ UNCHANGED <<callVars, findCall, decodeCall, dlVars>>

NextSanitize == SanitizeFilename

SpecSanitize == InitSanitize /\ [][NextSanitize]_vars

\* The characters the claim lists.
C15_Listed == {"<", ">", ":", ";", "\"", "/", "\\", "|", "?", "*"}

\* The positions of name at which a maximal run of listed characters starts.
C15_RunStarts(name) ==
    {k \in 1..Len(name) :
        name[k] \in C15_Listed /\ (k = 1 \/ name[k - 1] \notin C15_Listed)}

\* The positions of name that hold no listed character.
C15_Kept(name) == {k \in 1..Len(name) : name[k] \notin C15_Listed}

\* C15: the sanitized name holds none of the listed characters and at most
\* 100 characters; it has one character for every kept character of the name
\* and one underscore for every maximal run of listed characters, cut to the
\* first 100; a name without listed characters is returned as its first 100
\* characters; a/b:c*d.txt becomes a_b_c_d.txt.
C15_SanitizedName ==
    sanitizeCall.done =>
        LET name == sanitizeCall.name
            out  == sanitizeCall.result
        IN  /\ Len(out) <= 100
            /\ \A k \in 1..Len(out) : out[k] \notin C15_Listed
            /\ Len(out) = Min(100, Cardinality(C15_Kept(name))
                                   + Cardinality(C15_RunStarts(name)))
            /\ \A k \in 1..Len(out) :
                   out[k] # "_" => \E j \in C15_Kept(name) : name[j] = out[k]
            /\ C15_RunStarts(name) = {} => out = SubSeq(name, 1, Min(100, Len(name)))
            /\ name = ExampleName
                   => out = <<"a", "_", "b", "_", "c", "_", "d", ".", "t", "x", "t">>

\* A name longer than the limit with a run of two listed characters has been
\* sanitized.
C15_Witness ==
    /\ sanitizeCall.done
    /\ Len(sanitizeCall.name) > 100
    /\ Len(sanitizeCall.result) = 100
    /\ \E k \in 1..(Len(sanitizeCall.name) - 1) :
           sanitizeCall.name[k] \in C15_Listed /\ sanitizeCall.name[k + 1] \in C15_Listed

\* ---------------------------------------------------------------------------
\* findAttachments.  A part of a body structure is a record
\*   [kind, disposition, partID, items]:
\*   kind "array" is a JavaScript array whose elements are items;
\*   kind "object" is a part object, items being its parts property (<<>> when
\*     it has none), disposition its disposition.type ("none" when the part
\*     has no disposition) and partID its partID ("" when it has none);
\*   kind "other" is null or a scalar.
\* The descriptor pushed for a part keeps the part's partID and disposition;
\* filename, contentType, size and content are copied from the part and play
\* no role in which parts are pushed or in what order.

\* The most nodes a structure has.
MaxNodes == 3

\* The disposition type and the partID of the part objects walked: no
\* disposition, a disposition other than attachment, an attachment without a
\* partID, and two attachments that differ in case and in partID.
ObjectShapes ==
    {[disposition |-> "none", partID |-> "1"],
     [disposition |-> "inline", partID |-> "1"],
     [disposition |-> "Attachment", partID |-> ""],
     [disposition |-> "Attachment", partID |-> "1"],
     [disposition |-> "attachment", partID |-> "2"]}

\* String.toUpperCase over the disposition types.
toUpperCase(s) ==
    CASE s = "Attachment" -> "ATTACHMENT"
      [] s = "attachment" -> "ATTACHMENT"
      [] s = "inline" -> "INLINE"
      [] OTHER -> s

ArrayPart(items) ==
    [kind |-> "array", disposition |-> "none", partID |-> "", items |-> items]

ObjectPart(d, id, parts) ==
    [kind |-> "object", disposition |-> d, partID |-> id, items |-> parts]

OtherPart ==
    [kind |-> "other", disposition |-> "none", partID |-> "", items |-> <<>>]

\* Forest(n): the sequences of parts with n nodes in all; Tree(n): the parts
\* with n nodes.
RECURSIVE Forest(_), Tree(_)
Forest(n) ==
    IF n = 0 THEN {<<>>}
    ELSE UNION {{<<t>> \o f : t \in Tree(k), f \in Forest(n - k)} : k \in 1..n}

Tree(n) ==
    {ArrayPart(f) : f \in Forest(n - 1)}
        \cup {ObjectPart(o.disposition, o.partID, f) :
                 o \in ObjectShapes, f \in Forest(n - 1)}
        \cup (IF n = 1 THEN {OtherPart} ELSE {})

\* A test that compares the disposition type as it is written.
isAttachment_CaseSensitive(part) ==
    /\ part.disposition # "none"
    /\ part.disposition = "ATTACHMENT"
    /\ part.partID # ""

\* part.disposition?.type?.toUpperCase() === 'ATTACHMENT' && part.partID
isAttachment(part) ==
    /\ part.disposition # "none"
    /\ toUpperCase(part.disposition) = "ATTACHMENT"
    /\ part.partID # ""

\* The record attachments.push(...) appends for part.
descriptor(part) == [partID |-> part.partID, disposition |-> part.disposition]

\* processPart(part) with attachments the array pushed to so far, and
\* forEachPart(parts, i, attachments) the forEach loop from element i on; both
\* yield the array afterwards.
RECURSIVE processPart(_, _), forEachPart(_, _, _)
processPart(part, attachments) ==
    IF part.kind = "array" THEN forEachPart(part.items, 1, attachments)
    ELSE IF part.kind = "object"
         THEN LET pushed == IF isAttachment(part)
                            THEN Append(attachments, descriptor(part))
                            ELSE attachments
              IN  IF part.items # <<>>
                  THEN processPart(ArrayPart(part.items), pushed)
                  ELSE pushed
         ELSE attachments

forEachPart(parts, i, attachments) ==
    IF i > Len(parts) THEN attachments
    ELSE forEachPart(parts, i + 1, processPart(parts[i], attachments))

findAttachments(struct, attachments) == forEachPart(struct, 1, attachments)

InitWalker ==
    /\ variant \in Variants
    /\ phase = "idle"
    /\ callState = "none"
    /\ filterParams = NoFilter
    /\ now = NoDate
    /\ built = "none"
    /\ searchCriteria = <<>>
    /\ issued = <<>>
    /\ results = <<>>
    /\ fetchUids = <<>>
    /\ msgs = <<>>
    /\ mail = <<>>
    /\ mails = <<>>
    /\ timer = "none"
    /\ returned = <<>>
    /\ logged = {}
    /\ err = "none"
    /\ sanitizeCall = NoCall
    /\ decodeCall = NoCall
    /\ DlIdle
    /\ findCall \in {[struct |-> s, done |-> FALSE] :
                        s \in UNION {Forest(n) : n \in 0..MaxNodes}}

\* One run of findAttachments(struct, []).
FindAttachments ==
    /\ ~findCall.done
    /\ findCall' = [struct |-> findCall.struct, done |-> TRUE,
                    attachments |-> findAttachments(findCall.struct, <<>>)]
    /\ UNCHANGED <<callVars, sanitizeCall, decodeCall, dlVars>>

NextWalker == FindAttachments

SpecWalker == InitWalker /\ [][NextWalker]_vars

\* The part objects of a sequence of parts in depth-first, left-to-right
\* order, every object before the objects below it.
RECURSIVE C14_Objects(_)
C14_Objects(parts) ==
    IF parts = <<>> THEN <<>>
    ELSE (IF Head(parts).kind = "object" THEN <<Head(parts)>> ELSE <<>>)
             \o C14_Objects(Head(parts).items)
             \o C14_Objects(Tail(parts))

\* A part with the attachment disposition, in any case, and a partID.
C14_Qualifies(part) ==
    /\ part.disposition \in {"attachment", "Attachment", "ATTACHMENT"}
    /\ part.partID # ""

C14_Leaf(part) == part.items = <<>>

C14_QualifyingLeaf(part) == C14_Qualifies(part) /\ C14_Leaf(part)

C14_Descriptors(parts) ==
    [k \in 1..Len(parts) |->
        [partID |-> parts[k].partID, disposition |-> parts[k].disposition]]

\* C14 as stated: the walker returns one descriptor for each leaf part that
\* qualifies, and for no other part, in depth-first left-to-right order.
C14_ExactlyQualifyingLeaves ==
    findCall.done =>
        findCall.attachments
            = C14_Descriptors(SelectSeq(C14_Objects(findCall.struct),
                                        C14_QualifyingLeaf))

\* C14 amended: the walker returns one descriptor for each part object that
\* qualifies, whether it is a leaf or has parts of its own, in depth-first
\* left-to-right order with a part before the parts below it; arrays and the
\* parts of every object are walked whatever the object's disposition, and
\* other parts contribute nothing.
C14_EveryQualifyingPart ==
    findCall.done =>
        findCall.attachments
            = C14_Descriptors(SelectSeq(C14_Objects(findCall.struct),
                                        C14_Qualifies))

\* A part that does not qualify holds a qualifying part that itself holds a
\* qualifying leaf, and the walk has returned the two in this order.
C14_Witness ==
    /\ findCall.done
    /\ Len(findCall.struct) = 1
    /\ findCall.struct[1].kind = "object"
    /\ ~C14_Qualifies(findCall.struct[1])
    /\ Len(findCall.struct[1].items) = 1
    /\ C14_Qualifies(findCall.struct[1].items[1])
    /\ Len(findCall.struct[1].items[1].items) = 1
    /\ C14_QualifyingLeaf(findCall.struct[1].items[1].items[1])
    /\ findCall.struct[1].items[1].partID = "1"
    /\ findCall.struct[1].items[1].items[1].partID = "2"
    /\ Len(findCall.attachments) = 2
    /\ findCall.attachments[1].partID = "1"
    /\ findCall.attachments[2].partID = "2"

\* ---------------------------------------------------------------------------
\* downloadAttachments, in the two builds variant names: "delay" is the build
\* with the try/catch around one synchronous write per attachment, "gate" the
\* build that starts every write at once and awaits Promise.all.

\* The most mails passed, and the most attachments one mail has.
MaxDlMails == 2
MaxAtts == 2

\* Date.now() when the call starts.
StartInstant == 500

\* The default of the parameter outputDir.
outputDir == "attachments"

\* The attachment filenames passed: <<>> is an absent filename.
AttNames == {<<>>, <<"/">>, <<"a">>, <<"a", ":">>, <<"a", "?">>}

\* The dates of the mails passed: a fifth of March, or "N/A".
MailDates == {MakeDate(LastYear, 2, 5), NoDate}

\* The mail at position i of the argument, with date d; atts is its parsed
\* attachments and parsed says whether the parse that sets them has ended.
DlMail(i, d, parsed, atts) ==
    [uid |-> UidOf(i), seqNo |-> i, date |-> d,
     hasAttachments |-> parsed, attachments |-> atts]

AttLists ==
    UNION {[1..n -> {[filename |-> f] : f \in AttNames}] : n \in 0..MaxAtts}

\* The arguments mails of n mails.
RECURSIVE MailLists(_)
MailLists(n) ==
    IF n = 0 THEN {<<>>}
    ELSE {Append(ms, DlMail(n, d, TRUE, a)) :
             ms \in MailLists(n - 1), d \in MailDates, a \in AttLists}
         \cup {Append(ms, DlMail(n, d, FALSE, <<>>)) :
                  ms \in MailLists(n - 1), d \in MailDates}

\* The attachments the call goes through, in order, from mail i on.  The
\* "delay" build skips a mail without attachments; mails.flatMap(mail =>
\* mail.attachments) of the "gate" build keeps an undefined element for a mail
\* whose attachments are undefined.
RECURSIVE attachmentsFrom(_, _, _)
attachmentsFrom(v, ms, i) ==
    IF i > Len(ms) THEN <<>>
    ELSE LET m == ms[i]
             own == IF m.hasAttachments
                    THEN [j \in 1..Len(m.attachments) |->
                             [mail |-> i, att |-> j, defined |-> TRUE,
                              filename |-> m.attachments[j].filename]]
                    ELSE IF v = "gate"
                         THEN <<[mail |-> i, att |-> 0, defined |-> FALSE,
                                 filename |-> <<>>]>>
                         ELSE <<>>
         IN  own \o attachmentsFrom(v, ms, i + 1)

NoPath == [dir |-> <<>>, name |-> <<>>]

Pending == [status |-> "pending", path |-> NoPath]

\* path.join(dir, name)
join(dir, name) == [dir |-> <<dir>>, name |-> name]

DigitChars == <<"0", "1", "2", "3", "4", "5", "6", "7", "8", "9">>

\* The characters of a number in a template literal.
numberChars(n) == [k \in 1..Len(Digits(n)) |-> DigitChars[Digits(n)[k] + 1]]

\* `attachment_${mail.uid}_${Date.now()}`
synthesizedName(uid, t) ==
    <<"a", "t", "t", "a", "c", "h", "m", "e", "n", "t", "_">>
        \o numberChars(uid) \o <<"_">> \o numberChars(t)

\* att.filename && att.filename !== '/' ? att.filename : synthesized
resolveFilename(att, uid, t) ==
    IF att.filename # <<>> /\ att.filename # <<"/">> THEN att.filename
    ELSE synthesizedName(uid, t)

\* The files after content has been written to path.
writeFile(fs, path, content) ==
    {f \in fs : f.path # path} \cup {[path |-> path, content |-> content]}

InitWriter ==
    /\ variant \in Variants
    /\ phase = "idle"
    /\ callState = "none"
    /\ filterParams = NoFilter
    /\ now = NoDate
    /\ built = "none"
    /\ searchCriteria = <<>>
    /\ issued = <<>>
    /\ results = <<>>
    /\ fetchUids = <<>>
    /\ msgs = <<>>
    /\ mail = <<>>
    /\ mails = <<>>
    /\ timer = "none"
    /\ returned = <<>>
    /\ logged = {}
    /\ err = "none"
    /\ sanitizeCall = NoCall
    /\ findCall = NoCall
    /\ decodeCall = NoCall
    /\ dlState = "none"
    /\ dlMails \in UNION {MailLists(n) : n \in 0..MaxDlMails}
    /\ classifyByDate \in BOOLEAN
    /\ dirExists \in BOOLEAN
    /\ writes = <<>>
    /\ files = {}
    /\ clock = StartInstant
    /\ dlLogged = {}

\* downloadAttachments(mails) up to its first write: the output directory is
\* made when it is missing, and a mkdirSync that throws rejects the call.
DownloadAttachments(mkdirOk) ==
    /\ dlState = "none"
    /\ IF dirExists \/ mkdirOk
       THEN /\ dirExists' = TRUE
            /\ dlState' = "running"
            /\ writes' = [k \in 1..Len(attachmentsFrom(variant, dlMails, 1)) |->
                             Pending]
       ELSE /\ dlState' = "rejected"
            /\ UNCHANGED <<dirExists, writes>>
    /\ UNCHANGED <<callVars, sanitizeCall, findCall, decodeCall,
                   dlMails, classifyByDate,
                   files, clock, dlLogged>>

\* The body of the inner loop of the "delay" build for the next attachment:
\* writeFileSync succeeds or throws into the catch, which logs; tick is the
\* time the step takes.
WriteFileSync(ok, tick) ==
    /\ variant = "delay"
    /\ dlState = "running"
    /\ \E k \in 1..Len(writes) :
        /\ writes[k].status = "pending"
        /\ \A j \in 1..(k - 1) : writes[j].status # "pending"
        /\ LET att == attachmentsFrom(variant, dlMails, 1)[k]
               filename == resolveFilename(att, dlMails[att.mail].uid, clock)
               safeFilename == sanitizeFilename(filename)
               filepath == join(outputDir, safeFilename)
           IN  IF ok
               THEN /\ files' = writeFile(files, filepath,
                                          [mail |-> att.mail, att |-> att.att])
                    /\ writes' = [writes EXCEPT
                                     ![k] = [status |-> "written", path |-> filepath]]
                    /\ UNCHANGED dlLogged
               ELSE /\ writes' = [writes EXCEPT
                                     ![k] = [status |-> "failed", path |-> filepath]]
                    /\ dlLogged' = dlLogged \cup {k}
                    /\ UNCHANGED files
    /\ clock' = clock + tick
    /\ UNCHANGED <<callVars, sanitizeCall, findCall, decodeCall,
                   dlState, dlMails,
                   classifyByDate, dirExists>>

\* Whether the "gate" build can write att: path.join throws for an undefined
\* element or filename, and the path of the filename / is the directory.
gateWritable(att) ==
    att.defined /\ att.filename # <<>> /\ att.filename # <<"/">>

\* The end of the write of attachment k in the "gate" build: the writes run
\* side by side and end in any order; the first one that fails rejects
\* Promise.all and with it the call, the others go on.
WriteFile(k, ok) ==
    /\ variant = "gate"
    /\ dlState \in {"running", "rejected"}
    /\ k \in 1..Len(writes)
    /\ writes[k].status = "pending"
    /\ LET att == attachmentsFrom(variant, dlMails, 1)[k]
           filepath == join(outputDir, att.filename)
       IN  IF ok /\ gateWritable(att)
           THEN /\ files' = writeFile(files, filepath,
                                      [mail |-> att.mail, att |-> att.att])
                /\ writes' = [writes EXCEPT
                                 ![k] = [status |-> "written", path |-> filepath]]
                /\ UNCHANGED dlState
           ELSE /\ writes' = [writes EXCEPT
                                 ![k] = [status |-> "failed", path |-> filepath]]
                /\ dlState' = "rejected"
                /\ UNCHANGED files
    /\ UNCHANGED <<callVars, sanitizeCall, findCall, decodeCall,
                   dlMails, classifyByDate,
                   dirExists, clock, dlLogged>>

\* The call resolves: the loops of the "delay" build have ended, or every
\* write of the "gate" build has succeeded.
DownloadDone ==
    /\ dlState = "running"
    /\ \A k \in 1..Len(writes) : writes[k].status # "pending"
    /\ dlState' = "resolved"
    /\ UNCHANGED <<callVars, sanitizeCall, findCall, decodeCall,
                   dlMails, classifyByDate,
                   dirExists, writes, files, clock, dlLogged>>

NextWriter ==
    \/ \E mkdirOk \in BOOLEAN : DownloadAttachments(mkdirOk)
    \/ \E ok \in BOOLEAN, tick \in 0..1 : WriteFileSync(ok, tick)
    \/ \E k \in 1..(MaxDlMails * MaxAtts), ok \in BOOLEAN : WriteFile(k, ok)
    \/ DownloadDone

SpecWriter == InitWriter /\ [][NextWriter]_vars

\* The attachment write k is about, and the mail it belongs to.
DlAttachment(k) == attachmentsFrom(variant, dlMails, 1)[k]
DlMailOf(k) == dlMails[DlAttachment(k).mail]

\* C12: a write that fails is logged and skipped: the call is never rejected
\* once a write has failed, every failed write has been logged, and when the
\* call resolves every attachment has been gone through, so that all those
\* whose write did not fail are written.
C12_WriteFailureIsolated ==
    /\ dlState = "rejected" => \A k \in 1..Len(writes) : writes[k].status # "failed"
    /\ \A k \in 1..Len(writes) : writes[k].status = "failed" => k \in dlLogged
    /\ dlState = "resolved"
           => \A k \in 1..Len(writes) : writes[k].status \in {"written", "failed"}

\* C13: no two attachments are written to the same path.
C13_OneFilePerAttachment ==
    \A j, k \in 1..Len(writes) :
        (j # k /\ writes[j].status = "written" /\ writes[k].status = "written")
            => writes[j].path # writes[k].path

\* C16: with classifyByDate the attachments of a mail dated the fifth of
\* March are written to the folder 03-05 below outputDir, and without it
\* every attachment is written to outputDir itself.
C16_DateFolder ==
    \A k \in 1..Len(writes) :
        writes[k].status = "written" =>
            /\ (classifyByDate /\ DlMailOf(k).date # NoDate
                    /\ DlMailOf(k).date.month = 2 /\ DlMailOf(k).date.date = 5)
                   => writes[k].path.dir = <<outputDir, "03-05">>
            /\ ~classifyByDate => writes[k].path.dir = <<outputDir>>

\* ---------------------------------------------------------------------------
\* decodeRFC2047.  A string is a sequence of one-character strings.

\* The most segments an argument is made of.
MaxSegs == 3

UpperLetters ==
    <<
      "A", "B", "C", "D", "E", "F", "G", "H", "I", "J", "K", "L", "M", "N",
      "O", "P", "Q", "R", "S", "T", "U", "V", "W", "X", "Y", "Z"
    >>

LowerLetters ==
    <<
      "a", "b", "c", "d", "e", "f", "g", "h", "i", "j", "k", "l", "m", "n",
      "o", "p", "q", "r", "s", "t", "u", "v", "w", "x", "y", "z"
    >>

DigitSet == {"0", "1", "2", "3", "4", "5", "6", "7", "8", "9"}

Range(s) == {s[k] : k \in 1..Len(s)}

\* The position of c in s.
IndexOf(s, c) == CHOOSE k \in 1..Len(s) : s[k] = c

\* The class [A-Za-z0-9-] of the split expression.
CharsetChars == Range(UpperLetters) \cup Range(LowerLetters) \cup DigitSet \cup {"-"}

\* The characters with codes 32 to 95, in order.
AsciiLow ==
    <<
      " ", "!", "\"", "#", "$", "%", "&", "'", "(", ")", "*", "+", ",",
      "-", ".", "/", "0", "1", "2", "3", "4", "5", "6", "7", "8", "9", ":",
      ";", "<", "=", ">", "?", "@", "A", "B", "C", "D", "E", "F", "G", "H",
      "I", "J", "K", "L", "M", "N", "O", "P", "Q", "R", "S", "T", "U", "V",
      "W", "X", "Y", "Z", "[", "\\", "]", "^", "_"
    >>

\* The characters with codes 97 to 126, in order.
AsciiHigh ==
    <<
      "a", "b", "c", "d", "e", "f", "g", "h", "i", "j", "k", "l", "m", "n",
      "o", "p", "q", "r", "s", "t", "u", "v", "w", "x", "y", "z", "{", "|",
      "}", "~"
    >>

\* String.fromCharCode(n) for 32 <= n <= 126 other than 96.
fromCharCode(n) == IF n < 96 THEN AsciiLow[n - 31] ELSE AsciiHigh[n - 96]

\* String.prototype.toLowerCase.
toLowerCase(s) ==
    [k \in 1..Len(s) |->
        IF s[k] \in Range(UpperLetters)
        THEN LowerLetters[IndexOf(UpperLetters, s[k])] ELSE s[k]]

\* The base64 alphabet: the value of a character is its position minus one.
Base64Chars ==
    <<
      "A", "B", "C", "D", "E", "F", "G", "H", "I", "J", "K", "L", "M", "N",
      "O", "P", "Q", "R", "S", "T", "U", "V", "W", "X", "Y", "Z", "a", "b",
      "c", "d", "e", "f", "g", "h", "i", "j", "k", "l", "m", "n", "o", "p",
      "q", "r", "s", "t", "u", "v", "w", "x", "y", "z", "0", "1", "2", "3",
      "4", "5", "6", "7", "8", "9", "+", "/"
    >>

\* The k-th smallest element of a set of numbers.
Nth(S, k) == CHOOSE x \in S : Cardinality({y \in S : y < x}) = k - 1

\* Whether /\=\?[A-Za-z0-9-]+\?[BQ]\?/ matches s at position p.
tokenAt(s, p) ==
    /\ p + 1 <= Len(s)
    /\ s[p] = "="
    /\ s[p + 1] = "?"
    /\ \E n \in 1..Len(s) :
        /\ p + 4 + n <= Len(s)
        /\ \A k \in (p + 2)..(p + 1 + n) : s[k] \in CharsetChars
        /\ s[p + 2 + n] = "?"
        /\ s[p + 3 + n] \in {"B", "Q"}
        /\ s[p + 4 + n] = "?"

\* encoded.split(/(?=\=\?[A-Za-z0-9-]+\?[BQ]\?)/): the string is cut before
\* every position but the first at which the expression matches.
split(s) ==
    LET starts == {1} \cup {p \in 2..Len(s) : tokenAt(s, p)}
        n == Cardinality(starts)
    IN  [j \in 1..n |->
            SubSeq(s, Nth(starts, j),
                   IF j = n THEN Len(s) ELSE Nth(starts, j + 1) - 1)]

\* The ways /=\?(.+?)\?([BQ])\?(.+?)\?=/ can lie in part: <<i, cl, kl>> with i
\* the position of its = and cl, kl the lengths of the first and the third
\* group.
matches(part) ==
    LET n == Len(part)
        begins == {i \in 1..n : i + 1 <= n /\ part[i] = "=" /\ part[i + 1] = "?"}
        firsts(i) == {cl \in 1..n : /\ i + 4 + cl <= n
                                    /\ part[i + 2 + cl] = "?"
                                    /\ part[i + 3 + cl] \in {"B", "Q"}
                                    /\ part[i + 4 + cl] = "?"}
        thirds(i, cl) == {kl \in 1..n : /\ i + 6 + cl + kl <= n
                                        /\ part[i + 5 + cl + kl] = "?"
                                        /\ part[i + 6 + cl + kl] = "="}
    IN  UNION {UNION {{<<i, cl, kl>> : kl \in thirds(i, cl)} : cl \in firsts(i)} :
               i \in begins}

\* part.match(...): the leftmost match, each lazy group as short as it can
\* be; requires matches(part) # {}.
match(part) ==
    LET before(a, b) == \/ a[1] < b[1]
                        \/ a[1] = b[1] /\ a[2] < b[2]
                        \/ a[1] = b[1] /\ a[2] = b[2] /\ a[3] <= b[3]
        m == CHOOSE a \in matches(part) : \A b \in matches(part) : before(a, b)
    IN  [charset  |-> SubSeq(part, m[1] + 2, m[1] + 1 + m[2]),
         encoding |-> part[m[1] + 3 + m[2]],
         content  |-> SubSeq(part, m[1] + 5 + m[2], m[1] + 4 + m[2] + m[3])]

\* Buffer.from(content, 'base64'): the bytes of the alphabet characters that
\* come before the first =.
base64Bytes(content) ==
    LET pads == {k \in 1..Len(content) : content[k] = "="}
        upto == IF pads = {} THEN Len(content) ELSE Nth(pads, 1) - 1
        kept == SelectSeq(SubSeq(content, 1, upto),
                          LAMBDA c : c \in Range(Base64Chars))
        sextet(k) == IndexOf(Base64Chars, kept[k]) - 1
        byte(k) == LET bit == 8 * (k - 1)
                       a == (bit \div 6) + 1
                       v == sextet(a) * 64 + sextet(a + 1)
                       shift == 4 - (bit % 6)
                   IN  (v \div (2 ^ shift)) % 256
    IN  [k \in 1..((6 * Len(kept)) \div 8) |-> byte(k)]

\* buf.toString('utf8') and buf.toString('ascii') of bytes below 128, which
\* both encodings turn into the character with that code.
bufferToString(bytes, utf8) == [k \in 1..Len(bytes) |-> fromCharCode(bytes[k] % 128)]

HexChars == <<"0", "1", "2", "3", "4", "5", "6", "7", "8", "9",
              "A", "B", "C", "D", "E", "F">>

\* content.replace(/=([0-9A-F]{2})/g, ...) from position i on.
RECURSIVE replaceHex(_, _)
replaceHex(content, i) ==
    IF i > Len(content) THEN <<>>
    ELSE IF /\ content[i] = "="
            /\ i + 2 <= Len(content)
            /\ content[i + 1] \in Range(HexChars)
            /\ content[i + 2] \in Range(HexChars)
         THEN <<fromCharCode(16 * (IndexOf(HexChars, content[i + 1]) - 1)
                                + (IndexOf(HexChars, content[i + 2]) - 1))>>
                  \o replaceHex(content, i + 3)
         ELSE <<content[i]>> \o replaceHex(content, i + 1)

Whitespace == {" ", "\t", "\n", "\r"}

\* String.prototype.trim.
trim(s) ==
    LET inked == {k \in 1..Len(s) : s[k] \notin Whitespace}
    IN  IF inked = {} THEN <<>>
        ELSE SubSeq(s, Nth(inked, 1), Nth(inked, Cardinality(inked)))

\* What one pass of the loop adds to decoded.
decodePart(part) ==
    IF matches(part) = {} THEN part
    ELSE LET m == match(part)
         IN  IF m.encoding = "B"
             THEN bufferToString(base64Bytes(m.content),
                                 toLowerCase(m.charset) = <<"u", "t", "f", "-", "8">>)
             ELSE replaceHex(m.content, 1)

\* The loop over parts from part j on.
RECURSIVE decodeFrom(_, _)
decodeFrom(parts, j) ==
    IF j > Len(parts) THEN <<>>
    ELSE decodePart(parts[j]) \o decodeFrom(parts, j + 1)

decodeRFC2047(encoded) == trim(decodeFrom(split(encoded), 1))

\* The segments arguments are made of: two literal texts, a base64 word, a
\* quoted-printable word and a word with an encoding letter that is neither.
LiteralA == <<"a">>
Blank == <<" ">>
BWord == <<"=", "?", "u", "t", "f", "-", "8", "?", "B", "?", "a", "G", "k", "=", "?", "=">>
QWord == <<"=", "?", "U", "T", "F", "-", "8", "?", "Q", "?", "a", "=", "2", "0", "b", "?", "=">>
XWord == <<"=", "?", "u", "t", "f", "-", "8", "?", "X", "?", "a", "b", "?", "=">>

Segments == {LiteralA, Blank, BWord, QWord, XWord}

RECURSIVE Flatten(_)
Flatten(segs) == IF segs = <<>> THEN <<>> ELSE Head(segs) \o Flatten(Tail(segs))

InitDecode ==
    /\ variant \in Variants
    /\ phase = "idle"
    /\ callState = "none"
    /\ filterParams = NoFilter
    /\ now = NoDate
    /\ built = "none"
    /\ searchCriteria = <<>>
    /\ issued = <<>>
    /\ results = <<>>
    /\ fetchUids = <<>>
    /\ msgs = <<>>
    /\ mail = <<>>
    /\ mails = <<>>
    /\ timer = "none"
    /\ returned = <<>>
    /\ logged = {}
    /\ err = "none"
    /\ sanitizeCall = NoCall
    /\ findCall = NoCall
    /\ DlIdle
    /\ decodeCall \in {[segments |-> segs, encoded |-> Flatten(segs), done |-> FALSE] :
                          segs \in UNION {[1..n -> Segments] : n \in 0..MaxSegs}}

\* One run of decodeRFC2047(encoded).
DecodeRFC2047 ==
    /\ ~decodeCall.done
    /\ decodeCall' = [segments |-> decodeCall.segments,
                      encoded |-> decodeCall.encoded, done |-> TRUE,
                      result |-> decodeRFC2047(decodeCall.encoded)]
    /\ UNCHANGED <<callVars, sanitizeCall, findCall, dlVars>>

NextDecode == DecodeRFC2047

SpecDecode == InitDecode /\ [][NextDecode]_vars

\* What the claim has a segment contribute: an encoded word its decoded
\* payload, literal text and a word with an unknown encoding letter
\* themselves.
C21_Contribution(seg) ==
    CASE seg = BWord -> <<"h", "i">>
      [] seg = QWord -> <<"a", " ", "b">>
      [] OTHER -> seg

RECURSIVE C21_Concatenation(_)
C21_Concatenation(segs) ==
    IF segs = <<>> THEN <<>>
    ELSE C21_Contribution(Head(segs)) \o C21_Concatenation(Tail(segs))

\* C21: the decoded text is the trimmed concatenation, in order, of every
\* literal run as it is and every encoded word's decoded payload, so that
\* literal text after an encoded word is kept, a word with an unknown
\* encoding letter is passed through, and text without encoded words comes
\* back trimmed.
C21_LiteralTextPreserved ==
    decodeCall.done =>
        decodeCall.result = trim(C21_Concatenation(decodeCall.segments))

====
